---- MODULE Spec2Model ----
(***************************************************************************)
(* Slot booking and waitlist engine (server/db.js: bookSlot,               *)
(* cancelBooking) with the blackout update of server/slots.js              *)
(* (addBlackoutDate).                                                      *)
(*                                                                         *)
(* Time is counted in minutes.  Timestamps are stored as ISO-8601 UTC      *)
(* strings of fixed width, whose text order is their time order, so the    *)
(* SQL text comparisons are modelled as integer comparisons.               *)
(* A call that is rejected leaves every table as it was; what it throws is *)
(* given by bookResult and cancelOutcome.  lastResult is the response to   *)
(* the latest call that changed a table.                                   *)
(* Booking ids (nanoid) are modelled as fresh numbers handed out in        *)
(* insertion order, so the order of ids is the commit order of the         *)
(* inserts.  SQL NULL in waitlistPosition is modelled as 0.                *)
(***************************************************************************)
EXTENDS Integers, FiniteSets, Sequences, TLC

VARIABLES env, now, users, resources, slots, bookings, blackoutDates, nextId,
          lastResult, txn, recurringRules, memRules, memSlots, sseLog

vars == <<env, now, users, resources, slots, bookings, blackoutDates, nextId,
          lastResult, txn, recurringRules, memRules, memSlots, sseLog>>

\* the rule stores: the recurringRules table, and the recurringRules array
\* and the slots Map that server/index.js keeps in memory
ruleStores == <<recurringRules, memRules, memSlots>>

(* ---------------------------- bounds ----------------------------------- *)
MaxTime == 8
TickStep == 4
MaxBookings == 3
MaxBlackouts == 1
MaxRules == 2
MaxWeekBookings == 2

(* ---------------------------- data -------------------------------------- *)
NULL == 0

UserIds == {"u1", "u2", "u3", "t1", "a1"}
Bookers == {"u1", "u2", "u3"}
ResourceIds == {"r1", "r2"}
SlotIds == {"s1", "s2", "s3", "s4"}
NoSlot == "s0"
\* the slots that the concurrent requests contend for
ConcSlots == {"s1", "s2"}
Procs == {"p1", "p2"}

\* s1 and s2 overlap, s1 and s3 touch at an endpoint, s4 has the times of
\* s1 on another resource.
SeedSlots ==
  [s \in SlotIds |->
     CASE s = "s1" -> [resourceId |-> "r1", start |-> 6, end |-> 8,
                       blocked |-> FALSE, blockedLabel |-> ""]
       [] s = "s2" -> [resourceId |-> "r1", start |-> 7, end |-> 9,
                       blocked |-> FALSE, blockedLabel |-> ""]
       [] s = "s3" -> [resourceId |-> "r1", start |-> 8, end |-> 10,
                       blocked |-> FALSE, blockedLabel |-> ""]
       [] s = "s4" -> [resourceId |-> "r2", start |-> 6, end |-> 8,
                       blocked |-> FALSE, blockedLabel |-> ""]]

SeedUsers ==
  [u \in UserIds |-> CASE u = "a1" -> "admin"
                      [] u = "t1" -> "ta"
                      [] OTHER -> "student"]

\* users.role: CHECK (role IN ('student', 'ta', 'admin'))
RoleCheck(role) == role \in {"student", "ta", "admin"}

\* SQL UPPER() on the role names
UPPER(role) ==
  CASE role = "student" -> "STUDENT"
    [] role = "ta" -> "TA"
    [] role = "admin" -> "ADMIN"
    [] OTHER -> role

\* resources seeded with capacity 1 and 2 (cf. the seed data of server/index.js)
SeedResources ==
  [r \in ResourceIds |-> [capacity |-> IF r = "r1" THEN 1 ELSE 2]]

BlackoutWindows == {[start |-> 6, end |-> 8]}

\* an environment variable that is not set
Unset == "unset"

\* the values of GRACE_MINUTES the server is started with: environment
\* values are strings, and a non-empty string, "0" included, is truthy
GraceSettings == {Unset, "0", "2"}

DefaultGraceMinutes == 5

\* the number that graceMinutes * 60 * 1000 converts a numeric string to
ToNumber(str) ==
  CASE str = "0" -> 0
    [] str = "2" -> 2
    [] str = "10" -> 10

\* process.env.GRACE_MINUTES || 5
graceMinutes ==
  IF env.GRACE_MINUTES \in {Unset, ""} THEN DefaultGraceMinutes
  ELSE ToNumber(env.GRACE_MINUTES)

Idle == [pc |-> "idle"]
NoResult == [op |-> "init", result |-> [status |-> "none"]]

(* ---------------------------- queries ----------------------------------- *)
\* the ids of the rows of the bookings table
Ids(rows) == {b.id : b \in rows}

\* rows of bookings with the given slot and status
SlotBookings(rows, s, st) == {b \in rows : b.slotId = s /\ b.status = st}

\* COUNT(b.id) as bookedCount ... b.status = 'confirmed'
bookedCount(rows, s) == Cardinality(SlotBookings(rows, s, "confirmed"))

existingMutant(rows, u, s) ==
  {b \in rows : b.userId = u /\ b.slotId = s /\ b.status = "confirmed"}
\* SELECT * FROM bookings WHERE userId = ? AND slotId = ?
existing(rows, u, s) == {b \in rows : b.userId = u /\ b.slotId = s}

hasOverlapMutant(rows, u, s) ==
  {b \in rows : /\ b.userId = u
                /\ b.status = "confirmed"
                /\ slots[b.slotId].start < slots[s].end
                /\ slots[b.slotId].end > slots[s].start}
\* confirmed bookings of the user on the same resource with
\* s.start < slot.end AND s.end > slot.start
hasOverlap(rows, u, s) ==
  {b \in rows : /\ b.userId = u
                /\ b.status = "confirmed"
                /\ slots[b.slotId].resourceId = slots[s].resourceId
                /\ slots[b.slotId].start < slots[s].end
                /\ slots[b.slotId].end > slots[s].start}

\* new Date(slot.start) < new Date()
\* new Date(slot.start) < new Date()
isPast(s, t) == slots[s].start < t

\* the check as it would read if it let a full slot through
isBlockedMutant(s) == slots[s].blocked /\ bookedCount(bookings, s) = 0

\* if (slot.blocked)
isBlocked(s) == slots[s].blocked

hasCapacityMutant(count, cap) == count <= cap
\* slot.bookedCount < slot.capacity
hasCapacity(count, cap) == count < cap

SetMax(S) == CHOOSE x \in S : \A y \in S : y <= x

\* SELECT MAX(waitlistPosition) ... status = 'waitlisted'  (NULL when empty)
maxPosition(rows, s) ==
  LET w == SlotBookings(rows, s, "waitlisted")
  IN  IF w = {} THEN NULL ELSE SetMax({b.waitlistPosition : b \in w})

nextPositionMutant(rows, s) ==
  Cardinality(SlotBookings(rows, s, "waitlisted")) + 1
\* (maxPosition?.max || 0) + 1
nextPosition(rows, s) == maxPosition(rows, s) + 1

uniqueUserSlotMutant(rows, u, s) == TRUE
\* UNIQUE (userId, slotId)
uniqueUserSlot(rows, u, s) ==
  \A b \in rows : ~(b.userId = u /\ b.slotId = s)

NewBooking(id, u, s, st, pos) ==
  [id |-> id, userId |-> u, slotId |-> s, status |-> st,
   waitlistPosition |-> pos]

nextInLineMutant(rows, s) ==
  LET w == SlotBookings(rows, s, "waitlisted")
  IN  {b \in w : \A c \in w : c.waitlistPosition <= b.waitlistPosition}
\* ... status = 'waitlisted' ORDER BY waitlistPosition ASC LIMIT 1
\* (every row with the least position; SQLite may return any of them)
nextInLine(rows, s) ==
  LET w == SlotBookings(rows, s, "waitlisted")
  IN  {b \in w : \A c \in w : b.waitlistPosition <= c.waitlistPosition}

\* a promotion that leaves the position of the promoted row
promoteMutant(rows, id) ==
  {IF b.id = id THEN [b EXCEPT !.status = "confirmed"] ELSE b : b \in rows}

\* UPDATE bookings SET status = 'confirmed', waitlistPosition = NULL WHERE id = ?
promote(rows, id) ==
  {IF b.id = id THEN [b EXCEPT !.status = "confirmed", !.waitlistPosition = NULL]
                ELSE b : b \in rows}

\* UPDATE bookings SET waitlistPosition = waitlistPosition - 1
\* WHERE slotId = ? AND status = 'waitlisted' AND waitlistPosition > ?
\* a reindex that renumbers nothing
reindexMutant(rows, s, pos) == rows

reindex(rows, s, pos) ==
  {IF b.slotId = s /\ b.status = "waitlisted" /\ b.waitlistPosition > pos
     THEN [b EXCEPT !.waitlistPosition = b.waitlistPosition - 1]
     ELSE b : b \in rows}

\* DELETE FROM bookings WHERE id = ?
\* a cancel that puts the row on the waitlist instead of deleting it
deleteBookingMutant(rows, id) ==
  {IF b.id = id THEN [b EXCEPT !.status = "waitlisted", !.waitlistPosition = 9]
   ELSE b : b \in rows}

deleteBooking(rows, id) == {b \in rows : b.id # id}

\* now > start || (start - now) < graceMsec
inGracePeriod(s, t) ==
  t > slots[s].start \/ (slots[s].start - t) < graceMinutes

\* the check as it would read against upper-cased roles
notAllowedMutant(b, actor) == b.userId # actor /\ users[actor] = "STUDENT"

\* booking.userId !== actorId && booking.actorRole === 'student'
notAllowed(b, actor) == b.userId # actor /\ users[actor] = "student"

(* ---------------------------- bookSlot ---------------------------------- *)
\* The outcome of bookSlot(u, s) run alone against the current tables:
\* the code of the thrown error, or the status returned.
bookOutcome(u, s) ==
  IF s \notin DOMAIN slots \/ slots[s].resourceId \notin DOMAIN resources
    THEN "NOT_FOUND"
  ELSE IF isBlocked(s) THEN "SLOT_BLOCKED"
  ELSE IF existing(bookings, u, s) # {} THEN "ALREADY_BOOKED"
  ELSE IF hasOverlap(bookings, u, s) # {} THEN "OVERLAP_CONFLICT"
  ELSE IF isPast(s, now) THEN "PAST_SLOT"
  ELSE IF hasCapacity(bookedCount(bookings, s),
                      resources[slots[s].resourceId].capacity)
    THEN "confirmed"
  ELSE "waitlisted"

\* what bookSlot(u, s) returns ([status, position]) or throws ([code])
bookResult(u, s) ==
  LET out == bookOutcome(u, s)
  IN  IF out \notin {"confirmed", "waitlisted"} THEN [code |-> out]
      ELSE IF ~uniqueUserSlot(bookings, u, s)
        THEN [code |-> "SQLITE_CONSTRAINT"]
      ELSE IF out = "confirmed" THEN [status |-> "confirmed"]
      ELSE [status |-> "waitlisted",
            position |-> nextPosition(bookings, s)]

\* a bookSlot that gives its row the id of the latest row before it
bookRowsReusedId(u, s) ==
  LET res == bookResult(u, s)
  IN  IF "status" \notin DOMAIN res THEN bookings
      ELSE bookings \cup
             {NewBooking(IF nextId > 1 THEN nextId - 1 ELSE nextId,
                         u, s, res.status,
                         IF res.status = "waitlisted" THEN res.position
                         ELSE NULL)}

\* a bookSlot that inserts its row before it runs the checks
bookRowsMutant(u, s) ==
  bookings \cup {NewBooking(nextId, u, s, "confirmed", NULL)}

\* the bookings table after bookSlot(u, s)
bookRows(u, s) ==
  LET res == bookResult(u, s)
  IN  IF "status" \notin DOMAIN res THEN bookings
      ELSE bookings \cup
             {NewBooking(nextId, u, s, res.status,
                         IF res.status = "waitlisted" THEN res.position
                         ELSE NULL)}

\* A rejected call changes nothing; lastResult keeps the response to the
\* latest call that changed the tables.
bookSlot(u, s) ==
  LET res == bookResult(u, s)
      inserts == "status" \in DOMAIN res
  IN  /\ txn = [p \in Procs |-> Idle]
      /\ inserts => nextId <= MaxBookings
      /\ bookings' = bookRows(u, s)
      /\ nextId' = IF inserts THEN nextId + 1 ELSE nextId
      /\ lastResult' = IF inserts THEN [op |-> "book", result |-> res]
                       ELSE lastResult
      /\ UNCHANGED <<ruleStores,
                     env, now, users, resources, slots, blackoutDates, txn>>

(* ---------------------------- cancelBooking ----------------------------- *)
cancelOutcome(id, actor) ==
  LET found == {b \in bookings : b.id = id}
  IN  IF found = {} \/ actor \notin DOMAIN users THEN "NOT_FOUND"
      ELSE LET b == CHOOSE x \in found : TRUE
           IN  IF notAllowed(b, actor) THEN "NOT_ALLOWED"
               ELSE IF b.status = "confirmed" /\ inGracePeriod(b.slotId, now)
                 THEN "GRACE_PERIOD"
               ELSE "canceled"

\* a cancelBooking that promotes whatever the status of the cancelled row
cancelResultsMutant(id, actor) ==
  LET out == cancelOutcome(id, actor)
  IN  IF out # "canceled"
        THEN {[rows |-> bookings, result |-> [code |-> out]]}
        ELSE LET b == CHOOSE x \in bookings : x.id = id
                 rest == deleteBooking(bookings, id)
                 cand == nextInLine(rest, b.slotId)
             IN  IF cand # {}
                   THEN {[rows |-> reindex(promote(rest, next.id), b.slotId,
                                           next.waitlistPosition),
                          result |-> [status |-> "canceled",
                                      promoted |-> next.userId]]
                           : next \in cand}
                   ELSE {[rows |-> rest, result |-> [status |-> "canceled"]]}

\* What cancelBooking(id, actor) can do: the table it leaves and what it
\* returns ([status, promoted]) or throws ([code]).  LIMIT 1 picks any of the
\* waitlisted rows with the smallest position.
cancelResults(id, actor) ==
  LET out == cancelOutcome(id, actor)
  IN  IF out # "canceled"
        THEN {[rows |-> bookings, result |-> [code |-> out]]}
        ELSE LET b == CHOOSE x \in bookings : x.id = id
                 rest == deleteBooking(bookings, id)
                 cand == nextInLine(rest, b.slotId)
             IN  IF b.status = "confirmed" /\ cand # {}
                   THEN {[rows |-> reindex(promote(rest, next.id), b.slotId,
                                           next.waitlistPosition),
                          result |-> [status |-> "canceled",
                                      promoted |-> next.userId]]
                           : next \in cand}
                   ELSE {[rows |-> rest, result |-> [status |-> "canceled"]]}

cancelBooking(id, actor) ==
  /\ txn = [p \in Procs |-> Idle]
  /\ \E r \in cancelResults(id, actor) :
       /\ bookings' = r.rows
       /\ lastResult' = IF "status" \in DOMAIN r.result
                          THEN [op |-> "cancel", result |-> r.result]
                          ELSE lastResult
  /\ UNCHANGED <<ruleStores,
                 env, now, users, resources, slots, blackoutDates, nextId,
                 txn>>

(* ---------------------------- addBlackoutDate --------------------------- *)
addBlackoutDate(r, w, reason, actor) ==
  /\ txn = [p \in Procs |-> Idle]
  /\ Cardinality(blackoutDates) < MaxBlackouts
  /\ IF users[actor] # "admin"
       THEN UNCHANGED <<blackoutDates, slots, lastResult>>
       ELSE /\ blackoutDates' = blackoutDates \cup
                 {[id |-> Cardinality(blackoutDates) + 1, resourceId |-> r,
                   start |-> w.start, end |-> w.end, reason |-> reason]}
            /\ slots' = [s \in DOMAIN slots |->
                 IF /\ slots[s].resourceId = r
                    /\ slots[s].start >= w.start
                    /\ slots[s].end <= w.end
                   THEN [slots[s] EXCEPT !.blocked = TRUE,
                                         !.blockedLabel = reason]
                   ELSE slots[s]]
            /\ lastResult' = [op |-> "addBlackoutDate",
                              result |-> [status |-> "created"]]
  /\ UNCHANGED <<ruleStores, sseLog,
                 env, now, users, resources, bookings, nextId, txn>>

(* ---------------------------- migration 001 ----------------------------- *)
\* UPDATE users SET role = UPPER(role) WHERE role IN ('admin', 'ta',
\* 'student'): the statement is aborted when a new value fails the CHECK of
\* the users table, and the migration rolls back.
migrateRoles(us) ==
  LET upper == [u \in DOMAIN us |-> UPPER(us[u])]
  IN  IF \A u \in DOMAIN us : RoleCheck(upper[u]) THEN upper ELSE us

migrate ==
  /\ txn = [p \in Procs |-> Idle]
  /\ users' = migrateRoles(users)
  /\ UNCHANGED <<ruleStores, sseLog,
                 env, now, resources, slots, bookings, blackoutDates, nextId,
                 lastResult, txn>>

(* ---------------------------- clock ------------------------------------- *)
\* the wall clock read by new Date() advances between requests
Tick ==
  /\ txn = [p \in Procs |-> Idle]
  /\ now + TickStep <= MaxTime
  /\ now' = now + TickStep
  /\ lastResult' = [op |-> "tick", result |-> [status |-> "none"]]
  /\ UNCHANGED <<ruleStores, sseLog,
                 env, users, resources, slots, bookings, blackoutDates, nextId,
                 txn>>

(* ---------------------------- specification ----------------------------- *)
\* the ids a cancel request names: those of the rows in the table and one
\* that no row has
LiveOrFreshIds == Ids(bookings) \cup {nextId}

InitTables ==
  /\ now = 0
  /\ users = SeedUsers
  /\ resources = SeedResources
  /\ slots = SeedSlots
  /\ bookings = {}
  /\ blackoutDates = {}
  /\ nextId = 1
  /\ lastResult = NoResult
  /\ txn = [p \in Procs |-> Idle]
  /\ recurringRules = <<>>
  /\ memRules = <<>>
  /\ memSlots = <<>>
  /\ sseLog = <<>>

\* the server started without GRACE_MINUTES
Init == env = [GRACE_MINUTES |-> Unset] /\ InitTables

\* the server started with any of the settings of GRACE_MINUTES
InitEnv == (\E g \in GraceSettings : env = [GRACE_MINUTES |-> g]) /\ InitTables

Book == \E u \in Bookers, s \in SlotIds \cup {NoSlot} :
          bookSlot(u, s) /\ UNCHANGED sseLog
Cancel == \E id \in LiveOrFreshIds, actor \in UserIds :
            cancelBooking(id, actor) /\ UNCHANGED sseLog
Blackout == \E r \in {"r1"}, w \in BlackoutWindows, actor \in {"a1", "u1"} :
              addBlackoutDate(r, w, "maintenance", actor)

Next == Book \/ Cancel \/ Blackout \/ Tick \/ migrate

Spec == Init /\ [][Next]_vars

SpecEnv == InitEnv /\ [][Next]_vars

(* ---------------------------- concurrent requests ----------------------- *)
(* Every request runs on the one shared connection (_db) and takes no      *)
(* lock; each awaited statement is one step, and the statements of two     *)
(* requests in flight interleave.  txn[p] holds the request's local        *)
(* variables between its statements.                                       *)

InFlightBooks == Cardinality({p \in Procs : txn[p].pc \in
                   {"existing", "overlap", "maxPosition", "insert"}})

Finish(p) == txn' = [txn EXCEPT ![p] = Idle]

\* SELECT s.*, r.capacity, COUNT(b.id) as bookedCount ... ; NOT_FOUND, SLOT_BLOCKED
BookBegin(p, u, s) ==
  /\ txn[p].pc = "idle"
  /\ nextId + InFlightBooks <= MaxBookings
  /\ IF s \notin DOMAIN slots \/ slots[s].blocked
       THEN Finish(p)
       ELSE txn' = [txn EXCEPT ![p] =
              [pc |-> "existing", userId |-> u, slotId |-> s,
               capacity |-> resources[slots[s].resourceId].capacity,
               bookedCount |-> bookedCount(bookings, s),
               position |-> NULL]]
  /\ UNCHANGED <<ruleStores, sseLog,
                 env, now, users, resources, slots, bookings, blackoutDates,
                 nextId, lastResult>>

\* SELECT * FROM bookings WHERE userId = ? AND slotId = ? ; ALREADY_BOOKED
BookExisting(p) ==
  /\ txn[p].pc = "existing"
  /\ IF existing(bookings, txn[p].userId, txn[p].slotId) # {}
       THEN Finish(p)
       ELSE txn' = [txn EXCEPT ![p].pc = "overlap"]
  /\ UNCHANGED <<ruleStores, sseLog,
                 env, now, users, resources, slots, bookings, blackoutDates,
                 nextId, lastResult>>

\* overlap query; OVERLAP_CONFLICT, PAST_SLOT; the capacity branch
BookOverlap(p) ==
  /\ txn[p].pc = "overlap"
  /\ IF \/ hasOverlap(bookings, txn[p].userId, txn[p].slotId) # {}
        \/ isPast(txn[p].slotId, now)
       THEN Finish(p)
       ELSE IF hasCapacity(txn[p].bookedCount, txn[p].capacity)
         THEN txn' = [txn EXCEPT ![p].pc = "insert"]
         ELSE txn' = [txn EXCEPT ![p].pc = "maxPosition"]
  /\ UNCHANGED <<ruleStores, sseLog,
                 env, now, users, resources, slots, bookings, blackoutDates,
                 nextId, lastResult>>

\* SELECT MAX(waitlistPosition) ...
BookMaxPosition(p) ==
  /\ txn[p].pc = "maxPosition"
  /\ txn' = [txn EXCEPT ![p].pc = "insert",
                        ![p].position = nextPosition(bookings, txn[p].slotId)]
  /\ UNCHANGED <<ruleStores, sseLog,
                 env, now, users, resources, slots, bookings, blackoutDates,
                 nextId, lastResult>>

\* INSERT INTO bookings ... ; the UNIQUE constraint rejects a second row of
\* the same user and slot
BookInsert(p) ==
  /\ txn[p].pc = "insert"
  /\ IF uniqueUserSlot(bookings, txn[p].userId, txn[p].slotId)
       THEN /\ bookings' = bookings \cup
                 {NewBooking(nextId, txn[p].userId, txn[p].slotId,
                             IF txn[p].position = NULL THEN "confirmed"
                             ELSE "waitlisted",
                             txn[p].position)}
            /\ nextId' = nextId + 1
       ELSE UNCHANGED <<bookings, nextId>>
  /\ Finish(p)
  /\ UNCHANGED <<ruleStores, sseLog,
                 env, now, users, resources, slots, blackoutDates, lastResult>>

\* SELECT b.*, s.resourceId, u.role ... ; NOT_FOUND, NOT_ALLOWED
CancelBegin(p, id, actor) ==
  /\ txn[p].pc = "idle"
  /\ LET found == {b \in bookings : b.id = id}
     IN  IF found = {} \/ actor \notin DOMAIN users THEN Finish(p)
         ELSE LET b == CHOOSE x \in found : TRUE
              IN  IF notAllowed(b, actor) THEN Finish(p)
                  ELSE txn' = [txn EXCEPT ![p] =
                         [pc |-> IF b.status = "confirmed" THEN "grace"
                                 ELSE "delete",
                          booking |-> b, next |-> b]]
  /\ UNCHANGED <<ruleStores, sseLog,
                 env, now, users, resources, slots, bookings, blackoutDates,
                 nextId, lastResult>>

\* SELECT * FROM slots WHERE id = ? ; GRACE_PERIOD
CancelGrace(p) ==
  /\ txn[p].pc = "grace"
  /\ IF inGracePeriod(txn[p].booking.slotId, now)
       THEN Finish(p)
       ELSE txn' = [txn EXCEPT ![p].pc = "delete"]
  /\ UNCHANGED <<ruleStores, sseLog,
                 env, now, users, resources, slots, bookings, blackoutDates,
                 nextId, lastResult>>

\* DELETE FROM bookings WHERE id = ?
CancelDelete(p) ==
  /\ txn[p].pc = "delete"
  /\ bookings' = deleteBooking(bookings, txn[p].booking.id)
  /\ IF txn[p].booking.status = "confirmed"
       THEN txn' = [txn EXCEPT ![p].pc = "selectNext"]
       ELSE Finish(p)
  /\ UNCHANGED <<ruleStores, sseLog,
                 env, now, users, resources, slots, blackoutDates, nextId,
                 lastResult>>

\* SELECT ... ORDER BY b.waitlistPosition ASC LIMIT 1
CancelSelectNext(p) ==
  /\ txn[p].pc = "selectNext"
  /\ LET cand == nextInLine(bookings, txn[p].booking.slotId)
     IN  IF cand = {} THEN Finish(p)
         ELSE \E n \in cand :
                txn' = [txn EXCEPT ![p].pc = "promote", ![p].next = n]
  /\ UNCHANGED <<ruleStores, sseLog,
                 env, now, users, resources, slots, bookings, blackoutDates,
                 nextId, lastResult>>

\* UPDATE bookings SET status = 'confirmed', waitlistPosition = NULL WHERE id = ?
CancelPromote(p) ==
  /\ txn[p].pc = "promote"
  /\ bookings' = promote(bookings, txn[p].next.id)
  /\ txn' = [txn EXCEPT ![p].pc = "reindex"]
  /\ UNCHANGED <<ruleStores, sseLog,
                 env, now, users, resources, slots, blackoutDates, nextId,
                 lastResult>>

\* UPDATE bookings SET waitlistPosition = waitlistPosition - 1 ...
CancelReindex(p) ==
  /\ txn[p].pc = "reindex"
  /\ bookings' = reindex(bookings, txn[p].booking.slotId,
                         txn[p].next.waitlistPosition)
  /\ Finish(p)
  /\ UNCHANGED <<ruleStores, sseLog,
                 env, now, users, resources, slots, blackoutDates, nextId,
                 lastResult>>

BookBeginC == \E p \in Procs, u \in Bookers, s \in ConcSlots : BookBegin(p, u, s)
BookExistingC == \E p \in Procs : BookExisting(p)
BookOverlapC == \E p \in Procs : BookOverlap(p)
BookMaxPositionC == \E p \in Procs : BookMaxPosition(p)
BookInsertC == \E p \in Procs : BookInsert(p)
CancelBeginC == \E p \in Procs, id \in LiveOrFreshIds, actor \in Bookers :
                  CancelBegin(p, id, actor)
CancelGraceC == \E p \in Procs : CancelGrace(p)
CancelDeleteC == \E p \in Procs : CancelDelete(p)
CancelSelectNextC == \E p \in Procs : CancelSelectNext(p)
CancelPromoteC == \E p \in Procs : CancelPromote(p)
CancelReindexC == \E p \in Procs : CancelReindex(p)

NextConc ==
  \/ BookBeginC \/ BookExistingC \/ BookOverlapC \/ BookMaxPositionC
  \/ BookInsertC
  \/ CancelBeginC \/ CancelGraceC \/ CancelDeleteC \/ CancelSelectNextC
  \/ CancelPromoteC \/ CancelReindexC

SpecConc == Init /\ [][NextConc]_vars

(* ======================= properties ====================================== *)
Capacity(s) == resources[slots[s].resourceId].capacity
ConfirmedOn(s) == {b \in bookings : b.slotId = s /\ b.status = "confirmed"}
WaitlistedOn(s) == {b \in bookings : b.slotId = s /\ b.status = "waitlisted"}
PositionsOn(s) == {b.waitlistPosition : b \in WaitlistedOn(s)}
Holds(u, s) == \E b \in bookings : b.userId = u /\ b.slotId = s
AllIdle == \A p \in Procs : txn[p].pc = "idle"
Returned(op, r) == lastResult = [op |-> op, result |-> r]

\* E and S are different slots of one resource whose half-open time ranges
\* intersect
Intersects(e, s) ==
  /\ e # s
  /\ slots[e].resourceId = slots[s].resourceId
  /\ slots[e].start < slots[s].end
  /\ slots[e].end > slots[s].start

\* the user holds a confirmed booking on a slot that intersects S
ConfirmedIntersecting(u, s) ==
  \E b \in bookings : /\ b.userId = u
                      /\ b.status = "confirmed"
                      /\ Intersects(b.slotId, s)

(* C1: after any sequence of book and cancel calls, with the capacities    *)
(* fixed, no slot has more confirmed bookings than its resource's capacity. *)
C1_CapacityInvariant ==
  \A s \in DOMAIN slots : Cardinality(ConfirmedOn(s)) <= Capacity(s)

\* a cancellation has just promoted a user on a slot that is full again and
\* still has a waitlist
C1_Witness ==
  /\ lastResult.op = "cancel"
  /\ "promoted" \in DOMAIN lastResult.result
  /\ \E s \in DOMAIN slots : /\ Cardinality(ConfirmedOn(s)) = Capacity(s)
                             /\ WaitlistedOn(s) # {}

(* C2: after any sequence of book and cancel calls the waitlist positions  *)
(* of a slot's N waitlisted bookings are exactly 1..N.                      *)
C2_DenseWaitlist ==
  \A s \in DOMAIN slots :
    PositionsOn(s) = 1..Cardinality(WaitlistedOn(s))

(* C3: whenever a confirmed booking of a slot is cancelled while the slot's *)
(* waitlist is non-empty, the booking that becomes confirmed is the one     *)
(* inserted earliest among those still waitlisted on the slot, and no other *)
(* waitlisted booking is promoted.                                          *)
C3_FifoPromotion ==
  [][\A b \in bookings :
       ( /\ b.status = "confirmed"
         /\ ~(\E c \in bookings' : c.id = b.id)
         /\ WaitlistedOn(b.slotId) # {} )
       => \A w \in WaitlistedOn(b.slotId) :
            (\E c \in bookings' : c.id = w.id /\ c.status = "confirmed")
              <=> (\A x \in WaitlistedOn(b.slotId) : w.id <= x.id)]_vars

\* bookings 1, 2, 3 queued on s1 in that order; 2 left the waitlist, then 1
\* was cancelled and 3 was promoted
C3_Witness ==
  /\ nextId = 4
  /\ \E b \in bookings :
       /\ b.id = 3 /\ b.slotId = "s1" /\ b.status = "confirmed"
       /\ Returned("cancel", [status |-> "canceled", promoted |-> b.userId])
  /\ \A b \in bookings : b.id = 3

(* C4: with book and cancel calls on one slot interleaved between their     *)
(* reads and their writes, the slot's confirmed bookings never outnumber    *)
(* the capacity once the calls in flight have committed.                    *)
C4_CapacityUnderConcurrency ==
  AllIdle =>
    \A r \in DOMAIN resources, s \in DOMAIN slots :
      slots[s].resourceId = r
        => Cardinality(ConfirmedOn(s)) <= resources[r].capacity

(* C5: when book calls on one full slot run concurrently and nothing is     *)
(* cancelled, no two waitlisted bookings of the slot have the same          *)
(* position and the positions are exactly 1..N.                             *)
C5_WaitlistUnderConcurrentBooks ==
  (AllIdle /\ Cardinality(bookings) = nextId - 1) =>
    \A s \in DOMAIN slots :
      /\ \A b, c \in WaitlistedOn(s) :
           b.waitlistPosition = c.waitlistPosition => b = c
      /\ PositionsOn(s) = 1..Cardinality(WaitlistedOn(s))

(* C6 as stated: book(u, S) fails with ALREADY_BOOKED whenever u holds a    *)
(* confirmed or waitlisted booking on S, and inserts no row.                *)
C6_AlreadyBookedWhenever ==
  \A u \in Bookers, s \in SlotIds :
    Holds(u, s) => /\ bookResult(u, s) = [code |-> "ALREADY_BOOKED"]
                   /\ bookRows(u, s) = bookings

(* C6 amended: book(u, S) on a slot S that is not blocked fails with        *)
(* ALREADY_BOOKED whenever u holds a confirmed or waitlisted booking on S,  *)
(* and inserts no row; on a blocked slot it fails with SLOT_BLOCKED.        *)
C6_AlreadyBooked ==
  \A u \in Bookers, s \in SlotIds :
    Holds(u, s) => /\ bookResult(u, s) =
                        [code |-> IF slots[s].blocked THEN "SLOT_BLOCKED"
                                  ELSE "ALREADY_BOOKED"]
                   /\ bookRows(u, s) = bookings

\* one user holds a waitlisted booking and another a confirmed booking on an
\* open slot, and a second call of either is rejected with ALREADY_BOOKED
C6_Witness ==
  \E b, c \in bookings :
    /\ b.status = "waitlisted" /\ c.status = "confirmed"
    /\ b.slotId = c.slotId /\ ~slots[b.slotId].blocked
    /\ bookResult(b.userId, b.slotId) = [code |-> "ALREADY_BOOKED"]
    /\ bookResult(c.userId, c.slotId) = [code |-> "ALREADY_BOOKED"]

(* C7: in every reachable state, also with calls interleaved, a user has at *)
(* most one booking row per slot.                                           *)
C7_OneBookingPerUserSlot ==
  \A b, c \in bookings :
    (b.userId = c.userId /\ b.slotId = c.slotId) => b = c

\* a call is about to insert a second row for a user and slot that got a
\* row after the call's own check
C7_Witness ==
  \E p \in Procs : /\ txn[p].pc = "insert"
                   /\ Holds(txn[p].userId, txn[p].slotId)

(* C8 as stated: book(u, S) fails with OVERLAP_CONFLICT when u holds a      *)
(* confirmed booking on another slot of the same resource whose time range  *)
(* intersects that of S, and only then.                                     *)
C8_OverlapConflictWhen ==
  \A u \in Bookers, s \in SlotIds :
    bookResult(u, s) = [code |-> "OVERLAP_CONFLICT"]
      <=> ConfirmedIntersecting(u, s)

(* C8 amended: book(u, S) on a slot S that is not blocked and on which u    *)
(* holds no booking fails with OVERLAP_CONFLICT when u holds a confirmed    *)
(* booking on another slot of the same resource whose time range intersects *)
(* that of S; a confirmed booking on a slot of another resource or on a     *)
(* slot that only touches S at an endpoint never causes the rejection.      *)
C8_OverlapConflict ==
  \A u \in Bookers, s \in SlotIds :
    LET rejected == bookResult(u, s) = [code |-> "OVERLAP_CONFLICT"]
    IN  /\ rejected <=> ( /\ ~slots[s].blocked
                          /\ ~Holds(u, s)
                          /\ ConfirmedIntersecting(u, s) )
        /\ rejected => bookRows(u, s) = bookings

\* a user confirmed on s1, on s3 (touching s1) and on s4 (the times of s1 on
\* another resource) is refused s2 with OVERLAP_CONFLICT
C8_Witness ==
  \E u \in Bookers :
    /\ \A s \in {"s1", "s3", "s4"} : \E b \in ConfirmedOn(s) : b.userId = u
    /\ bookResult(u, "s2") = [code |-> "OVERLAP_CONFLICT"]

(* C9: in every reachable state no user holds two confirmed bookings on     *)
(* slots of one resource whose time ranges intersect.                       *)
C9_NoOverlappingConfirmed ==
  \A b, c \in bookings :
    (b.userId = c.userId /\ b.status = "confirmed" /\ c.status = "confirmed")
      => ~Intersects(b.slotId, c.slotId)

\* the request passes every check of bookSlot
Valid(u, s) ==
  /\ s \in DOMAIN slots
  /\ ~slots[s].blocked
  /\ ~Holds(u, s)
  /\ ~ConfirmedIntersecting(u, s)
  /\ slots[s].start >= now

\* what C10 says a valid request returns
Expected(s) ==
  IF Cardinality(ConfirmedOn(s)) < Capacity(s)
    THEN [status |-> "confirmed"]
    ELSE [status |-> "waitlisted",
          position |-> IF WaitlistedOn(s) = {} THEN 1
                       ELSE SetMax(PositionsOn(s)) + 1]

(* C10: a book request that passes every validation check never fails: it   *)
(* returns confirmed and inserts a confirmed row if the slot's confirmed    *)
(* count is below the capacity, and otherwise returns waitlisted with       *)
(* position = (greatest waitlist position on the slot, or 0) + 1 and        *)
(* inserts a waitlisted row at that position.                               *)
C10_ValidBookSucceeds ==
  \A u \in Bookers, s \in SlotIds :
    Valid(u, s)
    => LET rows == bookRows(u, s)
           want == Expected(s)
       IN  /\ bookResult(u, s) = want
           /\ Cardinality(rows \ bookings) = 1
           /\ bookings \subseteq rows
           /\ \A b \in rows \ bookings :
                /\ b.userId = u /\ b.slotId = s
                /\ b.status = want.status
                /\ b.waitlistPosition = IF b.status = "waitlisted"
                                          THEN want.position ELSE NULL

\* a valid request has just been waitlisted at position 2, behind the entry
\* at position 1
C10_Witness ==
  /\ Returned("book", [status |-> "waitlisted", position |-> 2])
  /\ \E s \in DOMAIN slots : PositionsOn(s) = {1, 2}

(* C11: book on a slot whose blocked flag is set fails with SLOT_BLOCKED    *)
(* and writes no booking, whatever the slot's confirmed count and waitlist. *)
C11_BlockedSlotRejected ==
  \A u \in Bookers, s \in SlotIds :
    slots[s].blocked => /\ bookResult(u, s) = [code |-> "SLOT_BLOCKED"]
                        /\ bookRows(u, s) = bookings

\* a blocked slot that is full and has a waitlist refuses a user who holds
\* nothing on it
C11_Witness ==
  \E s \in SlotIds, u \in Bookers :
    /\ slots[s].blocked
    /\ Cardinality(ConfirmedOn(s)) = Capacity(s)
    /\ WaitlistedOn(s) # {}
    /\ ~Holds(u, s)
    /\ bookResult(u, s) = [code |-> "SLOT_BLOCKED"]

\* the request of u for s passes every check that precedes the past-slot
\* check
ReachesPastCheck(u, s) ==
  /\ ~slots[s].blocked
  /\ ~Holds(u, s)
  /\ ~ConfirmedIntersecting(u, s)

(* C12: book fails with PAST_SLOT whenever slot.start is at or before the    *)
(* current time, also when slot.start = now, and writes no booking (for a   *)
(* request that passes the checks made before the past-slot check).         *)
C12_PastSlotAtOrBefore ==
  \A u \in Bookers, s \in SlotIds :
    (ReachesPastCheck(u, s) /\ slots[s].start <= now)
    => /\ bookResult(u, s) = [code |-> "PAST_SLOT"]
       /\ bookRows(u, s) = bookings

\* the roles as the cancel contract names them, in either spelling
IsStudent(role) == role \in {"student", UPPER("student")}
Elevated(role) == role \in {"ta", "admin", UPPER("ta"), UPPER("admin")}

ReachesGraceCheck(b, actor) == actor \in DOMAIN users /\ ~notAllowed(b, actor)

(* C14: cancel fails with GRACE_PERIOD exactly when the booking is          *)
(* confirmed and (now >= slot.start or slot.start - now < graceMinutes),    *)
(* for every configured grace window including 0; a waitlisted booking can  *)
(* be cancelled at any time (for an actor allowed to cancel the booking).   *)
C14_GracePeriodExactly ==
  \A b \in bookings, actor \in UserIds :
    ReachesGraceCheck(b, actor)
    => ( cancelOutcome(b.id, actor) = "GRACE_PERIOD"
         <=> /\ b.status = "confirmed"
             /\ \/ now >= slots[b.slotId].start
                \/ slots[b.slotId].start - now < graceMinutes )

\* the successful outcomes of cancelBooking(id, actor)
Cancelled(id, actor) ==
  {r \in cancelResults(id, actor) : "status" \in DOMAIN r.result}

(* C15: cancelling a confirmed booking on a slot with a non-empty waitlist  *)
(* promotes exactly one booking: the waitlisted booking with the smallest   *)
(* waitlistPosition becomes confirmed with its position cleared, and every  *)
(* other waitlisted booking of the slot has its position decreased by       *)
(* exactly 1; nothing else changes but the removal of the cancelled row.    *)
C15_PromotionAndReindex ==
  \A b \in bookings, actor \in UserIds :
    (b.status = "confirmed" /\ WaitlistedOn(b.slotId) # {})
    => \A r \in Cancelled(b.id, actor) :
         \E n \in WaitlistedOn(b.slotId) :
           /\ \A w \in WaitlistedOn(b.slotId) :
                w # n => w.waitlistPosition > n.waitlistPosition
           /\ r.result = [status |-> "canceled", promoted |-> n.userId]
           /\ r.rows =
                {x \in bookings : x.slotId # b.slotId}
                \cup (ConfirmedOn(b.slotId) \ {b})
                \cup {[n EXCEPT !.status = "confirmed",
                                !.waitlistPosition = NULL]}
                \cup {[w EXCEPT !.waitlistPosition = @ - 1] :
                        w \in WaitlistedOn(b.slotId) \ {n}}

\* capacity 1: u1 was confirmed, u2 at 1, u3 at 2; u1's booking has been
\* cancelled, u2 is confirmed and u3 is at position 1
C15_Witness ==
  /\ Returned("cancel", [status |-> "canceled", promoted |-> "u2"])
  /\ \E s \in SlotIds :
       /\ Capacity(s) = 1
       /\ {[u |-> b.userId, st |-> b.status, pos |-> b.waitlistPosition] :
             b \in SlotBookings(bookings, s, "confirmed")
                   \cup SlotBookings(bookings, s, "waitlisted")}
          = {[u |-> "u2", st |-> "confirmed", pos |-> NULL],
             [u |-> "u3", st |-> "waitlisted", pos |-> 1]}

(* C16: a successful cancel keeps the booking row in the table (with        *)
(* status cancelled): the set of booking ids never shrinks.                 *)
C16_RowsRetained == [][Ids(bookings) \subseteq Ids(bookings')]_vars

(* C17: a booking's status only changes from waitlisted to confirmed, and   *)
(* only by the promotion of a cancel call; a confirmed booking never        *)
(* becomes waitlisted; a booking that has been cancelled (its row is gone)  *)
(* never comes back.                                                        *)
C17_StatusTransitions ==
  [][ /\ \A b \in bookings, c \in bookings' :
           (b.id = c.id /\ b.status # c.status)
           => /\ b.status = "waitlisted" /\ c.status = "confirmed"
              /\ c.waitlistPosition = NULL
              /\ lastResult' = [op |-> "cancel",
                                result |-> [status |-> "canceled",
                                            promoted |-> b.userId]]
      /\ \A b \in bookings, c \in bookings' :
           b.id = c.id => (b.userId = c.userId /\ b.slotId = c.slotId)
      /\ \A i \in 1..(nextId - 1) :
           i \notin Ids(bookings) => i \notin Ids(bookings') ]_vars

\* a confirmed booking has been cancelled, its row is gone, and the user
\* promoted in its place is confirmed
C17_Witness ==
  /\ lastResult.op = "cancel"
  /\ "promoted" \in DOMAIN lastResult.result
  /\ Cardinality((1..(nextId - 1)) \ Ids(bookings)) >= 1
  /\ \E b \in bookings : b.userId = lastResult.result.promoted
                         /\ b.status = "confirmed"

(* C18: cancel on a bookingId that has no row (never issued, or already     *)
(* cancelled) fails with NOT_FOUND and changes nothing; two calls that      *)
(* cancel the same confirmed booking, also when they run interleaved,       *)
(* promote at most one waitlisted user.                                     *)
C18_CancelTwicePromotesOnce ==
  /\ AllIdle
     => \A id \in 1..nextId, actor \in UserIds :
          id \notin Ids(bookings)
          => cancelResults(id, actor)
               = {[rows |-> bookings, result |-> [code |-> "NOT_FOUND"]]}
  /\ \A p, q \in Procs :
       ( /\ txn[p].pc = "reindex" /\ txn[q].pc = "reindex"
         /\ txn[p].booking.id = txn[q].booking.id )
       => txn[p].next.id = txn[q].next.id

\* the typed validation errors of server/errors.js that bookSlot and
\* cancelBooking throw
ValidationErrors ==
  {"NOT_FOUND", "SLOT_BLOCKED", "PAST_SLOT", "ALREADY_BOOKED",
   "OVERLAP_CONFLICT", "NOT_ALLOWED", "GRACE_PERIOD"}

(* C19: a book or cancel call that fails with one of the typed validation   *)
(* errors leaves the bookings table identical to the table before the call. *)
C19_FailedCallWritesNothing ==
  /\ \A u \in Bookers, s \in SlotIds \cup {NoSlot} :
       bookOutcome(u, s) \in ValidationErrors => bookRows(u, s) = bookings
  /\ \A id \in LiveOrFreshIds, actor \in UserIds :
       cancelOutcome(id, actor) \in ValidationErrors
       => \A r \in cancelResults(id, actor) : r.rows = bookings

\* a state in which a book call fails on the overlap check and on the
\* already-booked check, and a cancel call on the permission check and on
\* the grace period
C19_Witness ==
  /\ \E u \in Bookers, s \in SlotIds : bookOutcome(u, s) = "OVERLAP_CONFLICT"
  /\ \E u \in Bookers, s \in SlotIds : bookOutcome(u, s) = "ALREADY_BOOKED"
  /\ \E b \in bookings, a \in UserIds : cancelOutcome(b.id, a) = "NOT_ALLOWED"
  /\ \E b \in bookings, a \in UserIds : cancelOutcome(b.id, a) = "GRACE_PERIOD"

(* C20: a successful book returns the identifier (bookingId) of the booking *)
(* it created, with which the owner can cancel exactly that booking.        *)
C20_BookReturnsBookingId ==
  lastResult.op = "book"
  => /\ "bookingId" \in DOMAIN lastResult.result
     /\ \E b \in bookings :
          /\ b.id = lastResult.result.bookingId
          /\ b.id = nextId - 1
          /\ cancelOutcome(b.id, b.userId) \in {"canceled", "GRACE_PERIOD"}

(* C21: a successful cancel returns status 'cancelled', and its promoted    *)
(* field is present, equal to the userId of the promoted booking, exactly   *)
(* when the cancellation promoted a waitlisted user.                        *)
C21_CancelReturn ==
  \A id \in LiveOrFreshIds, actor \in UserIds :
    \A r \in cancelResults(id, actor) :
      "status" \in DOMAIN r.result
      => LET promotedRows ==
               {b \in r.rows : /\ b.status = "confirmed"
                               /\ \E w \in bookings : /\ w.id = b.id
                                                      /\ w.status = "waitlisted"}
         IN  /\ r.result.status = "cancelled"
             /\ ("promoted" \in DOMAIN r.result) <=> (promotedRows # {})
             /\ "promoted" \in DOMAIN r.result
                  => \A b \in promotedRows : b.userId = r.result.promoted

(* ======================= the HTTP handlers of server/index.js ============ *)
(* POST /api/book and POST /api/cancel call the engine and then broadcast   *)
(* to the SSE clients.  sseLog holds the events that the latest request     *)
(* broadcast, in order.  The rate limiters are left out.                    *)

\* body('userId').trim().notEmpty(), body('slotId').trim().notEmpty()
notEmpty(str) == str # ""

\* what POST /api/book broadcasts after bookSlot(u, s) returned or threw res
bookEvents(u, s, res) ==
  IF "status" \notin DOMAIN res THEN <<>>
  ELSE IF res.status = "confirmed"
    THEN <<[event |-> "booking_confirmed", slotId |-> s, userId |-> u]>>
  ELSE IF res.status = "waitlisted"
    THEN <<[event |-> "waitlisted", slotId |-> s, userId |-> u,
            position |-> res.position]>>
  ELSE <<>>

\* what POST /api/cancel broadcasts after cancelBooking(id, actor) returned
\* or threw res
cancelEvents(id, res) ==
  IF "status" \notin DOMAIN res THEN <<>>
  ELSE <<[event |-> "booking_canceled", bookingId |-> id]>>
       \o (IF "promoted" \in DOMAIN res
             THEN <<[event |-> "booking_promoted", userId |-> res.promoted]>>
             ELSE <<>>)

PostBook(u, s) ==
  IF notEmpty(u) /\ notEmpty(s)
    THEN /\ bookSlot(u, s)
         /\ sseLog' = bookEvents(u, s, bookResult(u, s))
    ELSE /\ txn = [p \in Procs |-> Idle]
         /\ sseLog' = <<>>
         /\ UNCHANGED <<ruleStores, env, now, users, resources, slots,
                        bookings, blackoutDates, nextId, lastResult, txn>>

\* the row is deleted exactly when cancelBooking returns; lastResult then
\* holds what it returned
PostCancel(id, actor) ==
  /\ notEmpty(actor)
  /\ cancelBooking(id, actor)
  /\ sseLog' = IF bookings' # bookings
                 THEN cancelEvents(id, lastResult'.result)
                 ELSE <<>>

ApiBook == \E u \in Bookers \cup {""}, s \in SlotIds \cup {NoSlot} :
             PostBook(u, s)
ApiCancel == \E id \in LiveOrFreshIds, actor \in UserIds : PostCancel(id, actor)

NextApi == ApiBook \/ ApiCancel \/ Blackout \/ Tick

SpecApi == Init /\ [][NextApi]_vars

\* the events of the latest request that have the given name
Emitted(name) == {i \in DOMAIN sseLog' : sseLog'[i].event = name}

(* C22: events match outcomes.  A successful book emits exactly one event,  *)
(* booking_confirmed{slotId,userId} when confirmed or                       *)
(* waitlisted{slotId,userId,position} when waitlisted; a successful cancel   *)
(* emits slot_updated whether or not it promoted, and promoted{slotId,       *)
(* userId} exactly when a user was promoted; a request that fails emits no   *)
(* event; an event is emitted only with the ledger change it reports.        *)
C22_EventsMatchOutcomes ==
  [][/\ \A b \in bookings' :
          (\A c \in bookings : c.id # b.id)
          => sseLog' =
               <<IF b.status = "confirmed"
                   THEN [event |-> "booking_confirmed", slotId |-> b.slotId,
                         userId |-> b.userId]
                   ELSE [event |-> "waitlisted", slotId |-> b.slotId,
                         userId |-> b.userId,
                         position |-> b.waitlistPosition]>>
     /\ \A b \in bookings :
          (\A c \in bookings' : c.id # b.id)
          => LET promotedRows ==
                   {c \in bookings' :
                      /\ c.status = "confirmed"
                      /\ \E w \in bookings : /\ w.id = c.id
                                             /\ w.status = "waitlisted"}
             IN  /\ \E i \in DOMAIN sseLog' :
                      sseLog'[i] = [event |-> "slot_updated",
                                    slotId |-> b.slotId]
                 /\ \A c \in promotedRows :
                      \E i \in DOMAIN sseLog' :
                        sseLog'[i] = [event |-> "promoted",
                                      slotId |-> b.slotId,
                                      userId |-> c.userId]
                 /\ promotedRows = {} => Emitted("promoted") = {}
     /\ bookings' = bookings => sseLog' \in {<<>>, sseLog}]_vars

(* ======================= slot materialization (server/slots.js) ========== *)
(* In SpecWeek and SpecRules the clock counts seconds of local time from    *)
(* 00:00:00 of a Monday, so that the seconds a Date carries are resolved;   *)
(* milliseconds behave as the seconds do and are left out, and so are       *)
(* daylight-saving shifts.  Slot ids (nanoid) are the numbers 1, 2, ... in  *)
(* insertion order.  A blockedLabel that is NULL is modelled as "".         *)
(* The calls of this section leave lastResult as it is.                     *)

MinuteLen == 60
HourLen == 60 * MinuteLen
DayLen == 24 * HourLen
WeekLen == 7 * DayLen

SetMin(S) == CHOOSE x \in S : \A y \in S : x <= y

\* Date.getDay(): 0 = Sunday, 1 = Monday, ..., 6 = Saturday
getDay(t) == (((t \div DayLen) % 7) + 1) % 7
getHours(t) == (t % DayLen) \div HourLen
getMinutes(t) == (t % HourLen) \div MinuteLen
\* Date.setHours(h) and Date.setMinutes(m) with one argument: the smaller
\* fields (minutes, seconds) keep their values
setHours(t, h) == t + (h - getHours(t)) * HourLen
setMinutes(t, m) == t + (m - getMinutes(t)) * MinuteLen
\* d.setDate(d.getDate() + n)
addDays(t, n) == t + n * DayLen

\* startOfWeek of server/slots.js: the Monday of the date's week, at the
\* date's own time of day
startOfWeek(date) ==
  LET day == getDay(date)
  IN  addDays(date, (IF day = 0 THEN 0 - 6 ELSE 1) - day)

\* Number(process.env.OPEN_TIME || 8), CLOSE_TIME || 20, SLOT_LENGTH || 120
openTime == IF env.OPEN_TIME = Unset THEN 8 ELSE ToNumber(env.OPEN_TIME)
closeTime == IF env.CLOSE_TIME = Unset THEN 20 ELSE ToNumber(env.CLOSE_TIME)
slotLength == IF env.SLOT_LENGTH = Unset THEN 120 ELSE ToNumber(env.SLOT_LENGTH)
slotsPerDay == ((closeTime - openTime) * 60) \div slotLength

\* the windows that the two loops of generateWeekSlots compute, in order
weekSlotTimes(start) ==
  [i \in 1..(7 * slotsPerDay) |->
     LET dayOffset == (i - 1) \div slotsPerDay
         slotIndex == (i - 1) % slotsPerDay
         dayStart == addDays(start, dayOffset)
         slotStart == setMinutes(
                        setHours(dayStart,
                                 openTime + (slotIndex * slotLength) \div 60),
                        (slotIndex * slotLength) % 60)
     IN  [dayOfWeek |-> IF getDay(dayStart) = 0 THEN 7 ELSE getDay(dayStart),
          start |-> slotStart,
          end |-> setMinutes(slotStart, getMinutes(slotStart) + slotLength)]]

\* SELECT * FROM recurringRules WHERE resourceId = ?  (in rowid order)
rulesOf(rules, r) == SelectSeq(rules, LAMBDA rule : rule.resourceId = r)

\* rule.dayOfWeek === dayOfWeek && slotStartHour >= rule.startHour &&
\* slotEndHour <= rule.endHour, the hours with their minutes as fractions
ruleBlocks(rule, w) ==
  /\ rule.dayOfWeek = w.dayOfWeek
  /\ getHours(w.start) * 60 + getMinutes(w.start) >= rule.startHour * 60
  /\ getHours(w.end) * 60 + getMinutes(w.end) <= rule.endHour * 60

isRecurringBlocked(rules, w) ==
  \E i \in DOMAIN rules : ruleBlocks(rules[i], w)

\* SELECT * FROM blackoutDates WHERE resourceId = ? AND start >= ? AND end <= ?
weekBlackouts(r, start) ==
  {b \in blackoutDates : /\ b.resourceId = r
                         /\ b.start >= start
                         /\ b.end <= start + WeekLen}

\* slotStart >= blackoutStart && slotEnd <= blackoutEnd
blackoutCovers(b, w) == w.start >= b.start /\ w.end <= b.end

isBlackedOut(blackouts, w) == \E b \in blackouts : blackoutCovers(b, w)

\* isRecurringBlocked ? rules.find(r => r.dayOfWeek === dayOfWeek)?.label
\*                    : blackouts.find(covers)?.reason
blockedLabel(rules, blackouts, w) ==
  IF isRecurringBlocked(rules, w)
    THEN rules[SetMin({i \in DOMAIN rules :
                         rules[i].dayOfWeek = w.dayOfWeek})].label
  ELSE IF isBlackedOut(blackouts, w)
    THEN LET covering == {b \in blackouts : blackoutCovers(b, w)}
         IN  (CHOOSE b \in covering :
                \A c \in covering : b.id <= c.id).reason
  ELSE ""

\* a key lookup that finds nothing
slotConflictMutant(tbl, r, w) == {}

\* UNIQUE (resourceId, start, end): the rows that have the key
slotConflict(tbl, r, w) ==
  {s \in DOMAIN tbl : /\ tbl[s].resourceId = r
                      /\ tbl[s].start = w.start
                      /\ tbl[s].end = w.end}

freshSlotId(tbl) == IF DOMAIN tbl = {} THEN 1 ELSE SetMax(DOMAIN tbl) + 1

NewSlot(r, w, blocked, label) ==
  [resourceId |-> r, start |-> w.start, end |-> w.end,
   blocked |-> blocked, blockedLabel |-> label]

\* the table with one more row
insertSlot(tbl, row) ==
  LET id == freshSlotId(tbl)
  IN  [s \in DOMAIN tbl \cup {id} |-> IF s = id THEN row ELSE tbl[s]]

\* an upsert that replaces the row it conflicts with by a new row
upsertSlotMutant(tbl, r, w, blocked, label) ==
  LET hit == slotConflict(tbl, r, w)
      kept == [s \in DOMAIN tbl \ hit |-> tbl[s]]
      id == freshSlotId(tbl)
  IN  [s \in DOMAIN kept \cup {id} |->
         IF s = id THEN NewSlot(r, w, blocked, label) ELSE kept[s]]

\* INSERT INTO slots ... ON CONFLICT(resourceId, start, end) DO UPDATE SET
\* blocked = ?, blockedLabel = ?
upsertSlot(tbl, r, w, blocked, label) ==
  LET hit == slotConflict(tbl, r, w)
  IN  IF hit = {} THEN insertSlot(tbl, NewSlot(r, w, blocked, label))
      ELSE [s \in DOMAIN tbl |->
              IF s \in hit THEN [tbl[s] EXCEPT !.blocked = blocked,
                                               !.blockedLabel = label]
              ELSE tbl[s]]

RECURSIVE upsertWeek(_, _, _, _, _, _)
\* the slots table after the upserts of windows i, i + 1, ... of the week
upsertWeek(tbl, r, times, rules, blackouts, i) ==
  IF i > Len(times) THEN tbl
  ELSE LET w == times[i]
           blocked == isRecurringBlocked(rules, w) \/ isBlackedOut(blackouts, w)
       IN  upsertWeek(upsertSlot(tbl, r, w, blocked,
                                 blockedLabel(rules, blackouts, w)),
                      r, times, rules, blackouts, i + 1)

\* weekStartDate || new Date(): the argument is <<>> when it is left out
weekStartOf(d, t) == startOfWeek(IF d = <<>> THEN t ELSE d[1])

\* the slots table after generateWeekSlots(r, d) called at time t with the
\* given rows in recurringRules
weekSlots(tbl, rules, r, d, t) ==
  LET start == weekStartOf(d, t)
  IN  upsertWeek(tbl, r, weekSlotTimes(start), rulesOf(rules, r),
                 weekBlackouts(r, start), 1)

generateWeekSlots(r, d) ==
  /\ txn = [p \in Procs |-> Idle]
  /\ IF r \notin DOMAIN resources
       THEN UNCHANGED slots
       ELSE slots' = weekSlots(slots, recurringRules, r, d, now)
  /\ UNCHANGED <<ruleStores, sseLog, env, now, users, resources, bookings,
                 blackoutDates, nextId, lastResult, txn>>

\* recurringRules: CHECK (dayOfWeek BETWEEN 1 AND 7), (startHour BETWEEN 0
\* AND 23), (endHour BETWEEN 1 AND 24), (endHour > startHour)
ruleCheck(rule) ==
  /\ rule.dayOfWeek \in 1..7
  /\ rule.startHour \in 0..23
  /\ rule.endHour \in 1..24
  /\ rule.endHour > rule.startHour

\* addRecurringRule(r, rule, actor): NOT_ALLOWED unless the actor is an
\* admin; the insert fails on a CHECK or on the foreign key of resourceId;
\* then generateWeekSlots(r, new Date())
addRecurringRule(r, rule, actor) ==
  /\ txn = [p \in Procs |-> Idle]
  /\ Len(recurringRules) < MaxRules
  /\ IF users[actor] # "admin" \/ ~ruleCheck(rule) \/ r \notin DOMAIN resources
       THEN UNCHANGED <<recurringRules, slots>>
       ELSE LET rules == Append(recurringRules,
                                [id |-> Len(recurringRules) + 1,
                                 resourceId |-> r,
                                 dayOfWeek |-> rule.dayOfWeek,
                                 startHour |-> rule.startHour,
                                 endHour |-> rule.endHour,
                                 label |-> rule.label,
                                 createdBy |-> actor])
            IN  /\ recurringRules' = rules
                /\ slots' = weekSlots(slots, rules, r, <<now>>, now)
  /\ UNCHANGED <<memRules, memSlots, sseLog, env, now, users, resources,
                 bookings, blackoutDates, nextId, lastResult, txn>>

(* ------------- POST /api/admin/resources of server/index.js ------------- *)
\* startOfWeek of server/index.js: monday.setHours(0, 0, 0, 0)
startOfWeekMidnight(date) ==
  LET monday == startOfWeek(date)
  IN  monday - (monday % DayLen)

\* const hours = [8, 10, 12, 14, 16, 18]
hours == <<8, 10, 12, 14, 16, 18>>

\* start.setHours(h, 0, 0, 0); end.setHours(h + 2) for 7 days
resourceSlotTimes(weekStart) ==
  [i \in 1..(7 * Len(hours)) |->
     LET dayOffset == (i - 1) \div Len(hours)
         h == hours[((i - 1) % Len(hours)) + 1]
         start == addDays(weekStart, dayOffset) + h * HourLen
     IN  [start |-> start, end |-> setHours(start, h + 2)]]

RECURSIVE insertWeek(_, _, _, _)
\* INSERT INTO slots (id, resourceId, start, end, blocked) VALUES (..., false)
insertWeek(tbl, r, times, i) ==
  IF i > Len(times) THEN tbl
  ELSE insertWeek(insertSlot(tbl, NewSlot(r, times[i], FALSE, "")),
                  r, times, i + 1)

\* the transaction of the handler: the resource row under a new id, and its
\* slots of the current week; a row that breaks UNIQUE (resourceId, start,
\* end) fails the transaction
createResource(id, capacity) ==
  LET times == resourceSlotTimes(startOfWeekMidnight(now))
  IN  /\ txn = [p \in Procs |-> Idle]
      /\ id \notin DOMAIN resources
      /\ IF capacity < 1 \/ \E i \in DOMAIN times :
                               slotConflict(slots, id, times[i]) # {}
           THEN UNCHANGED <<resources, slots>>
           ELSE /\ resources' = [r \in DOMAIN resources \cup {id} |->
                                  IF r = id THEN [capacity |-> capacity]
                                  ELSE resources[r]]
                /\ slots' = insertWeek(slots, id, times, 1)
      /\ UNCHANGED <<ruleStores, sseLog, env, now, users, bookings,
                     blackoutDates, nextId, lastResult, txn>>

(* ------------- the week specification ----------------------------------- *)
\* Monday 07:00:00 of week 0
WeekClock0 == 7 * HourLen

\* the times at which requests arrive, a second apart
ClockTimes == {WeekClock0, WeekClock0 + 1}

NewResourceId == "r3"

\* the calls of generateWeekSlots: on r1 with weekStartDate left out, and on
\* r1 and on the new resource with Monday 00:00:00 of week 0
WeekCalls == {<<"r1", <<>>>>, <<"r1", <<0>>>>, <<NewResourceId, <<0>>>>}

\* rules on r1: Monday 08-10, and Monday 09-11
RuleInputs ==
  {[resourceId |-> "r1", dayOfWeek |-> 1, startHour |-> 8, endHour |-> 10,
    label |-> "class"],
   [resourceId |-> "r1", dayOfWeek |-> 1, startHour |-> 9, endHour |-> 11,
    label |-> "lab"]}

\* Tuesday of week 0; and from the Sunday before week 0 to Monday noon
WeekBlackouts ==
  {[start |-> DayLen, end |-> 2 * DayLen, reason |-> "maintenance"],
   [start |-> 0 - DayLen, end |-> 12 * HourLen, reason |-> "holiday"]}

\* the Monday slots of r1
MondaySlots ==
  {s \in DOMAIN slots : /\ slots[s].resourceId = "r1"
                        /\ getDay(slots[s].start) = 1}

InitWeek ==
  /\ env = [GRACE_MINUTES |-> Unset, OPEN_TIME |-> Unset,
            CLOSE_TIME |-> "10", SLOT_LENGTH |-> Unset]
  /\ now = WeekClock0
  /\ users = SeedUsers
  /\ resources = SeedResources
  /\ slots = <<>>
  /\ bookings = {}
  /\ blackoutDates = {}
  /\ nextId = 1
  /\ lastResult = NoResult
  /\ txn = [p \in Procs |-> Idle]
  /\ recurringRules = <<>>
  /\ memRules = <<>>
  /\ memSlots = <<>>
  /\ sseLog = <<>>

GenerateWeek == \E c \in WeekCalls : generateWeekSlots(c[1], c[2])
AddRule == \E rule \in RuleInputs, actor \in {"a1", "u1"} :
             addRecurringRule(rule.resourceId, rule, actor)
BlackoutWeek == \E w \in WeekBlackouts, actor \in {"a1", "u1"} :
                  addBlackoutDate("r1", w, w.reason, actor)
CreateResource == createResource(NewResourceId, 1)
BookWeek == \E u \in {"u1", "u2"}, s \in MondaySlots :
              /\ nextId <= MaxWeekBookings
              /\ bookSlot(u, s)
              /\ UNCHANGED sseLog
TickWeek ==
  /\ txn = [p \in Procs |-> Idle]
  /\ \E t \in ClockTimes : t > now /\ now' = t
  /\ UNCHANGED <<ruleStores, sseLog, env, users, resources, slots, bookings,
                 blackoutDates, nextId, lastResult, txn>>

NextWeek ==
  GenerateWeek \/ AddRule \/ BlackoutWeek \/ CreateResource \/ BookWeek
  \/ TickWeek

SpecWeek == InitWeek /\ [][NextWeek]_vars

(* ======================= properties of the materializer ================== *)
\* the slots table after generateWeekSlots(c[1], c[2]) called at time t
AfterCall(tbl, c, t) == weekSlots(tbl, recurringRules, c[1], c[2], t)

(* C23: materializeWeek(resourceId, weekStart) is idempotent.  Calling it   *)
(* twice in succession, at any two call times, with the rules and the       *)
(* blackouts unchanged, yields the same set of slots with the same ids,     *)
(* start/end and blocked flags; the second call creates no new slot.        *)
C23_IdempotentMaterialization ==
  \A c \in WeekCalls, t \in ClockTimes :
    (c[1] \in DOMAIN resources /\ t >= now)
    => LET once == AfterCall(slots, c, now)
       IN  AfterCall(once, c, t) = once

(* C24: materializeWeek never inserts, deletes or modifies a booking row,   *)
(* and for a slot that already exists it changes nothing but blocked and    *)
(* blockedLabel (id, resourceId, start and end are kept), so the confirmed  *)
(* and waitlisted bookings on a slot that becomes blocked are still there   *)
(* afterwards.                                                              *)
C24_MaterializeKeepsBookings ==
  [][slots' # slots
     => /\ bookings' = bookings
        /\ \A s \in DOMAIN slots :
             /\ s \in DOMAIN slots'
             /\ slots'[s].resourceId = slots[s].resourceId
             /\ slots'[s].start = slots[s].start
             /\ slots'[s].end = slots[s].end]_vars

\* a slot with a confirmed and a waitlisted booking has been blocked by the
\* rule "class"
C24_Witness ==
  \E s \in DOMAIN slots :
    /\ slots[s].blocked
    /\ slots[s].blockedLabel = "class"
    /\ ConfirmedOn(s) # {}
    /\ WaitlistedOn(s) # {}

\* the windows that generateWeekSlots(c[1], c[2]) called at time t upserts
WindowsOf(c, t) == weekSlotTimes(weekStartOf(c[2], t))

\* the rules of resource r whose weekday and hours contain the window
MatchingRules(r, w) ==
  LET rules == rulesOf(recurringRules, r)
  IN  {rules[j] : j \in {k \in DOMAIN rules : ruleBlocks(rules[k], w)}}

\* the blackouts of resource r whose window contains the window
CoveringBlackouts(r, w) ==
  {b \in blackoutDates :
     b.resourceId = r /\ b.start <= w.start /\ w.end <= b.end}

(* C26: after materializeWeek a slot is blackout-blocked if and only if     *)
(* some blackout of the same resource has blackout.start <= slot.start and  *)
(* slot.end <= blackout.end, blackouts whose window starts before or ends   *)
(* after the materialized week included.                                    *)
C26_BlackoutBlocked ==
  \A c \in WeekCalls :
    c[1] \in DOMAIN resources
    => LET tbl == AfterCall(slots, c, now)
           times == WindowsOf(c, now)
       IN  \A i \in DOMAIN times :
             \A s \in slotConflict(tbl, c[1], times[i]) :
               /\ CoveringBlackouts(c[1], times[i]) # {} => tbl[s].blocked
               /\ (tbl[s].blocked /\ MatchingRules(c[1], times[i]) = {})
                    => CoveringBlackouts(c[1], times[i]) # {}

(* C27: after materializeWeek the blockedLabel of a blocked slot is the     *)
(* label of a rule that matches the slot (same weekday, hour window         *)
(* containing the slot); if no rule matches, it is the reason of a blackout *)
(* that contains the slot; and blockedLabel is unset on every unblocked     *)
(* slot.                                                                    *)
C27_BlockedLabel ==
  \A c \in WeekCalls :
    c[1] \in DOMAIN resources
    => LET tbl == AfterCall(slots, c, now)
           times == WindowsOf(c, now)
       IN  \A i \in DOMAIN times :
             \A s \in slotConflict(tbl, c[1], times[i]) :
               LET matching == MatchingRules(c[1], times[i])
               IN  /\ (tbl[s].blocked /\ matching # {})
                        => tbl[s].blockedLabel \in
                             {rule.label : rule \in matching}
                   /\ (tbl[s].blocked /\ matching = {})
                        => tbl[s].blockedLabel \in
                             {b.reason :
                                b \in CoveringBlackouts(c[1], times[i])}
                   /\ ~tbl[s].blocked => tbl[s].blockedLabel = ""

\* the window of slot s, with its weekday (Monday = 1, ..., Sunday = 7)
WindowOf(s) ==
  [dayOfWeek |-> IF getDay(slots[s].start) = 0 THEN 7
                 ELSE getDay(slots[s].start),
   start |-> slots[s].start, end |-> slots[s].end]

(* C28: a slot covered by a matching RecurringRule cannot be booked         *)
(* (SLOT_BLOCKED); once that rule is removed and the week is materialized   *)
(* again, the slot's blocked flag is false and a book on it can succeed.    *)
(* (The recurringRules table has no operation that removes a rule; the      *)
(* formula states the first half.)                                          *)
C28_CoveredSlotRejected ==
  \A s \in DOMAIN slots, u \in Bookers :
    MatchingRules(slots[s].resourceId, WindowOf(s)) # {}
    => bookOutcome(u, s) = "SLOT_BLOCKED"

(* C29: after any sequence of materializeWeek calls and resource creations  *)
(* there is at most one slot per (resourceId, start, end).                  *)
C29_OneSlotPerWindow ==
  \A s, t \in DOMAIN slots :
    ( /\ slots[s].resourceId = slots[t].resourceId
      /\ slots[s].start = slots[t].start
      /\ slots[s].end = slots[t].end )
    => s = t

\* a resource has been created with its week of slots, r1 has slots of two
\* call times, and a slot of r1 that was booked before is blocked by a rule:
\* its row was upserted
C29_Witness ==
  /\ NewResourceId \in DOMAIN resources
  /\ \E s \in DOMAIN slots : slots[s].resourceId = NewResourceId
  /\ \E s, t \in MondaySlots : slots[s].start # slots[t].start
  /\ \E s \in MondaySlots : /\ slots[s].blocked
                            /\ slots[s].blockedLabel = "class"
                            /\ ConfirmedOn(s) # {}


(* ============ the in-memory rules endpoints of server/index.js =========== *)
(* server/index.js keeps a Map of slots and an array of recurring rules in   *)
(* memory.  memSlots is the Map in insertion order (nanoid(10) keys, here    *)
(* the position), memRules the array.  The Map is filled once, when the      *)
(* module is loaded; the rules endpoints carry no guard.  undefined          *)
(* blockedLabel is the empty string.  The bookings and waitlist arrays of    *)
(* an in-memory slot are not touched by these endpoints and are left out.    *)
MaxMemRules == 2

\* const resources = [{ id: 'r1', ... }, { id: 'r2', ... }, { id: 'r3', ... }]
memResources == <<"r1", "r2", "r3">>

\* generateWeekSlots() of server/index.js, called at time t
generateWeekSlotsMem(t) ==
  LET times == resourceSlotTimes(startOfWeekMidnight(t))
      n == Len(times)
  IN  [i \in 1..(Len(memResources) * n) |->
         LET w == times[((i - 1) % n) + 1]
         IN  [id |-> i,
              resourceId |-> memResources[((i - 1) \div n) + 1],
              start |-> w.start,
              end |-> w.end,
              blocked |-> FALSE,
              blockedLabel |-> ""]]

\* const day = (d.getDay() === 0 ? 7 : d.getDay())
dayOf(t) == IF getDay(t) = 0 THEN 7 ELSE getDay(t)

\* s.resourceId === rule.resourceId && day === rule.dayOfWeek &&
\* d.getHours() >= rule.startHour && d.getHours() < rule.endHour
memRuleBlocks(rule, s) ==
  /\ s.resourceId = rule.resourceId
  /\ dayOf(s.start) = rule.dayOfWeek
  /\ getHours(s.start) >= rule.startHour
  /\ getHours(s.start) < rule.endHour

\* rule.label || 'Blocked'
labelOrBlocked(rule) == IF rule.label = "" THEN "Blocked" ELSE rule.label

\* the slots of the current week are reset, then every rule, in the order of
\* the array, blocks and labels the slots it matches
applyRecurringRulesToCurrentWeek(tbl, rules, t) ==
  LET weekStart == startOfWeekMidnight(t)
      weekEnd == addDays(weekStart, 7)
  IN  [i \in DOMAIN tbl |->
         LET s == tbl[i]
             reset == IF s.start >= weekStart /\ s.start < weekEnd
                      THEN [s EXCEPT !.blocked = FALSE, !.blockedLabel = ""]
                      ELSE s
             matching == {j \in DOMAIN rules : memRuleBlocks(rules[j], s)}
         IN  IF matching = {} THEN reset
             ELSE [reset EXCEPT
                     !.blocked = TRUE,
                     !.blockedLabel =
                        labelOrBlocked(rules[CHOOSE j \in matching :
                                               \A k \in matching : k <= j])]]

\* nanoid(8): an id that no rule of the array carries
freshRuleId(rules) ==
  SetMin({n \in 1..(Len(rules) + 1) :
            \A j \in DOMAIN rules : rules[j].id # n})

\* POST /api/admin/rules; a missing resourceId is "", a missing dayOfWeek is
\* a body without that field; Number() of the fields is the field
PostRule(body) ==
  /\ txn = [p \in Procs |-> Idle]
  /\ Len(memRules) < MaxMemRules
  /\ IF body.resourceId = "" \/ "dayOfWeek" \notin DOMAIN body
     THEN /\ UNCHANGED <<memRules, memSlots>>
          /\ sseLog' = <<>>
     ELSE LET rule == [id |-> freshRuleId(memRules),
                       resourceId |-> body.resourceId,
                       dayOfWeek |-> body.dayOfWeek,
                       startHour |-> body.startHour,
                       endHour |-> body.endHour,
                       label |-> body.label]
              rules == Append(memRules, rule)
          IN  /\ memRules' = rules
              /\ memSlots' = applyRecurringRulesToCurrentWeek(memSlots, rules,
                                                              now)
              /\ sseLog' = <<[event |-> "rules_updated", rule |-> rule]>>
  /\ UNCHANGED <<recurringRules, env, now, users, resources, slots, bookings,
                 blackoutDates, nextId, lastResult, txn>>

\* DELETE /api/admin/rules/:id
DeleteRule(id) ==
  /\ txn = [p \in Procs |-> Idle]
  /\ LET found == {j \in DOMAIN memRules : memRules[j].id = id}
     IN  IF found = {}
         THEN /\ UNCHANGED <<memRules, memSlots>>
              /\ sseLog' = <<>>
         ELSE LET idx == SetMin(found)
                  rules == [j \in 1..(Len(memRules) - 1) |->
                              IF j < idx THEN memRules[j]
                              ELSE memRules[j + 1]]
              IN  /\ memRules' = rules
                  /\ memSlots' = applyRecurringRulesToCurrentWeek(memSlots,
                                                                  rules, now)
                  /\ sseLog' = <<[event |-> "rules_updated", id |-> id]>>
  /\ UNCHANGED <<recurringRules, env, now, users, resources, slots, bookings,
                 blackoutDates, nextId, lastResult, txn>>

(* ----------------------------- the role guard ---------------------------- *)
\* const ROLE_LEVELS = { STUDENT: 0, TA: 1, ADMIN: 2 }
ROLE_LEVELS == [STUDENT |-> 0, TA |-> 1, ADMIN |-> 2]

\* String.prototype.toLowerCase() on the role names
toLowerCase(str) ==
  CASE str = "STUDENT" -> "student"
    [] str = "TA" -> "ta"
    [] str = "ADMIN" -> "admin"
    [] OTHER -> str

\* ROLE_LEVELS[key] ?? dflt
levelOr(key, dflt) ==
  IF key \in DOMAIN ROLE_LEVELS THEN ROLE_LEVELS[key] ELSE dflt

\* checkRole(minRole) of middleware/rbac.js on a request of a user with the
\* given role
checkRole(minRole, role) ==
  IF levelOr(role, 0 - 1) < levelOr(minRole, 999)
  THEN "FORBIDDEN" ELSE "next"

\* checkRole(minRole) of middleware.js
checkRoleLower(minRole, role) ==
  IF levelOr(toLowerCase(role), 0 - 1) < levelOr(toLowerCase(minRole), 999)
  THEN "FORBIDDEN" ELSE "next"

\* guardAnalytics and guardCapacityChange of middleware/rbac.js
guardAnalytics(role) == IF role # "ADMIN" THEN "FORBIDDEN" ELSE "next"

\* GET /api/admin/rules of server/index.js has no middleware
viewRulesGuard(role) == "next"

\* the admin-only guards: checkRole('admin') as server/index.js calls it,
\* checkRole('ADMIN') with the name as ROLE_LEVELS spells it, each with the
\* two definitions of checkRole, and guardAnalytics
AdminGuards ==
  {[impl |-> i, minRole |-> m] :
     i \in {"rbac", "middleware"}, m \in {"admin", "ADMIN"}}
  \cup {[impl |-> "guardAnalytics", minRole |-> "ADMIN"]}

guardOutcome(g, role) ==
  CASE g.impl = "rbac" -> checkRole(g.minRole, role)
    [] g.impl = "middleware" -> checkRoleLower(g.minRole, role)
    [] OTHER -> guardAnalytics(role)

\* authMiddleware, then the guard: the user of the token is read from the
\* users table (401 if there is none) and its stored role is checked
NoUser == "u0"
AdminRequest(actor, g) ==
  /\ txn = [p \in Procs |-> Idle]
  /\ lastResult' =
       [op |-> "guard",
        result |-> IF actor \notin DOMAIN users
                   THEN [code |-> "UNAUTHORIZED"]
                   ELSE IF guardOutcome(g, users[actor]) = "next"
                     THEN [status |-> "next"]
                   ELSE [code |-> guardOutcome(g, users[actor])]]
  /\ UNCHANGED <<ruleStores, sseLog, env, now, users, resources, slots,
                 bookings, blackoutDates, nextId, txn>>

(* -------------------- the rules specification ---------------------------- *)
\* the server is started on the Monday of week 0 at 07:00; requests arrive
\* then, a second later, and on the Monday of the week after
RulesClockTimes == {WeekClock0, WeekClock0 + 1, WeekLen + WeekClock0}

\* request bodies: a rule that contains the Monday 08:00-10:00 slot of r1,
\* one that overlaps the Monday 08:00-10:00 and 10:00-12:00 slots of r1 and
\* contains neither, one without label that contains two Tuesday slots of
\* r2, and two bodies with a missing field
RuleBodies ==
  {[resourceId |-> "r1", dayOfWeek |-> 1, startHour |-> 8, endHour |-> 10,
    label |-> "class"],
   [resourceId |-> "r1", dayOfWeek |-> 1, startHour |-> 9, endHour |-> 11,
    label |-> "lab"],
   [resourceId |-> "r2", dayOfWeek |-> 2, startHour |-> 8, endHour |-> 12,
    label |-> ""],
   [resourceId |-> "", dayOfWeek |-> 1, startHour |-> 8, endHour |-> 10,
    label |-> "class"],
   [resourceId |-> "r1", startHour |-> 8, endHour |-> 10, label |-> "class"]}

RuleIds == 1..(MaxMemRules + 1)

InitRules ==
  /\ env = [GRACE_MINUTES |-> Unset, OPEN_TIME |-> Unset,
            CLOSE_TIME |-> Unset, SLOT_LENGTH |-> Unset]
  /\ now = WeekClock0
  /\ users = SeedUsers
  /\ resources = SeedResources
  /\ slots = <<>>
  /\ bookings = {}
  /\ blackoutDates = {}
  /\ nextId = 1
  /\ lastResult = NoResult
  /\ txn = [p \in Procs |-> Idle]
  /\ recurringRules = <<>>
  /\ memRules = <<>>
  /\ memSlots = generateWeekSlotsMem(WeekClock0)
  /\ sseLog = <<>>

ApiPostRule == \E body \in RuleBodies : PostRule(body)
ApiDeleteRule == \E id \in RuleIds : DeleteRule(id)
TickRules ==
  /\ txn = [p \in Procs |-> Idle]
  /\ \E t \in RulesClockTimes : t > now /\ now' = t
  /\ UNCHANGED <<ruleStores, sseLog, env, users, resources, slots, bookings,
                 blackoutDates, nextId, lastResult, txn>>

ApiAdminRequest ==
  \E actor \in UserIds \cup {NoUser}, g \in AdminGuards : AdminRequest(actor, g)

NextRules == ApiPostRule \/ ApiDeleteRule \/ ApiAdminRequest \/ TickRules

SpecRules == InitRules /\ [][NextRules]_vars

\* the rules of the array that contain the in-memory slot s: same resource,
\* same weekday, rule.startHour <= slot start hour, slot end hour <=
\* rule.endHour
ContainingRules(s) ==
  {j \in DOMAIN memRules :
     /\ memRules[j].resourceId = s.resourceId
     /\ memRules[j].dayOfWeek = dayOf(s.start)
     /\ memRules[j].startHour <= getHours(s.start)
     /\ getHours(s.end) <= memRules[j].endHour}

(* C25: after a rule is created through the admin rule endpoint, a slot is   *)
(* recurring-blocked if and only if some rule of the same resource has       *)
(* dayOfWeek equal to the slot's weekday (Mon=1..Sun=7) and rule.startHour   *)
(* <= slot start hour and slot end hour <= rule.endHour; a rule of another   *)
(* resource or weekday, or one covering the slot only partially, does not    *)
(* block it.                                                                 *)
C25_RecurringBlocked ==
  \A i \in DOMAIN memSlots :
    memSlots[i].blocked <=> ContainingRules(memSlots[i]) # {}


(* C30: with the role order student < TA < admin, the admin-only guard lets  *)
(* a request through if and only if the authenticated user's stored role is  *)
(* admin (a student and a TA get FORBIDDEN on resource creation and          *)
(* analytics, an admin gets through), and a TA passes the guard for viewing  *)
(* rules.                                                                    *)
C30_RoleGuard ==
  \A u \in DOMAIN users :
    /\ \A g \in AdminGuards :
         (guardOutcome(g, users[u]) = "next") <=> (users[u] = "admin")
    /\ users[u] = "ta" => viewRulesGuard(users[u]) = "next"


(* ============================ read accessors ============================= *)
\* a count that takes every booking joined to the slot
statusCountMutant(rows, s, st) == Cardinality({b \in rows : b.slotId = s})

\* COUNT(CASE WHEN b.status = ? THEN 1 END) over
\* slots s LEFT JOIN bookings b ON s.id = b.slotId WHERE s.id = ?
statusCount(rows, s, st) ==
  LET joined == {b \in rows : b.slotId = s}
  IN  Cardinality({b \in joined : b.status = st})

\* getSlotStatus(slotId) against the slots table tbl and the bookings rows:
\* the row of the query, or the thrown code when the join of the slot with
\* its resource is empty
getSlotStatus(tbl, rows, s) ==
  IF s \notin DOMAIN tbl \/ tbl[s].resourceId \notin DOMAIN resources
    THEN [code |-> "NOT_FOUND"]
  ELSE [id |-> s,
        blocked |-> tbl[s].blocked,
        capacity |-> resources[tbl[s].resourceId].capacity,
        confirmedCount |-> statusCount(rows, s, "confirmed"),
        waitlistCount |-> statusCount(rows, s, "waitlisted")]

(* C31: slotStatus(slotId) returns confirmedCount and waitlistCount equal   *)
(* to the number of bookings on the slot that are currently confirmed and   *)
(* currently waitlisted (a cancelled booking is counted in neither),        *)
(* together with the slot's blocked flag; on a capacity-1 slot with one     *)
(* confirmed and one waitlisted user it reports 1 and 1, and after the      *)
(* confirmed user cancels it reports 1 and 0.                               *)
C31_SlotStatus ==
  [][\A s \in DOMAIN slots :
       LET before == getSlotStatus(slots, bookings, s)
           after == getSlotStatus(slots', bookings', s)
           confirmedBefore == {b \in bookings : b.slotId = s
                                                /\ b.status = "confirmed"}
       IN  /\ after.confirmedCount =
                Cardinality({b \in bookings' : b.slotId = s
                                               /\ b.status = "confirmed"})
           /\ after.waitlistCount =
                Cardinality({b \in bookings' : b.slotId = s
                                               /\ b.status = "waitlisted"})
           /\ after.confirmedCount + after.waitlistCount =
                Cardinality({b \in bookings' : b.slotId = s})
           /\ after.blocked = slots'[s].blocked
           /\ (/\ before.capacity = 1
               /\ before.confirmedCount = 1
               /\ before.waitlistCount = 1
               /\ \E b \in confirmedBefore : b.id \notin Ids(bookings'))
              => (after.confirmedCount = 1 /\ after.waitlistCount = 0)
    ]_vars

\* a capacity-1 slot whose confirmed user cancelled while one user waited:
\* the status reports the promoted user as the one confirmed booking
C31_Witness ==
  /\ lastResult.op = "cancel"
  /\ "promoted" \in DOMAIN lastResult.result
  /\ \E s \in DOMAIN slots :
       /\ getSlotStatus(slots, bookings, s).capacity = 1
       /\ getSlotStatus(slots, bookings, s).confirmedCount = 1
       /\ getSlotStatus(slots, bookings, s).waitlistCount = 0
       /\ \A b \in bookings : b.slotId = s
                              => b.userId = lastResult.result.promoted


(* C32: in every reachable state a booking carries a waitlistPosition if    *)
(* and only if its status is waitlisted: confirmed bookings (including      *)
(* promoted ones) have no position, and a cancelled booking, whose row is   *)
(* deleted, has none.                                                       *)
C32_PositionIffWaitlisted ==
  \A b \in bookings :
    /\ b.status \in {"confirmed", "waitlisted"}
    /\ (b.waitlistPosition # NULL) <=> (b.status = "waitlisted")
    /\ b.status = "waitlisted" => b.waitlistPosition >= 1

\* a cancel has promoted a waitlisted booking, which is now confirmed, while
\* another booking of the same slot is still waitlisted
C32_Witness ==
  /\ lastResult.op = "cancel"
  /\ "promoted" \in DOMAIN lastResult.result
  /\ \E b, w \in bookings :
       /\ b.userId = lastResult.result.promoted
       /\ b.status = "confirmed"
       /\ w.slotId = b.slotId
       /\ w.status = "waitlisted"


(* ================= PUT /api/admin/resources/:id (server/index.js) ======== *)
(* The handler behind authMiddleware and checkRole('admin').  A request     *)
(* body carries name, capacity, both or neither; the resources table of     *)
(* the model keeps the capacity column.                                     *)

\* body('name').optional().trim().isLength({ min: 1 }),
\* body('capacity').optional().isInt({ min: 1 })
validBody(body) ==
  /\ "name" \in DOMAIN body => body.name # ""
  /\ "capacity" \in DOMAIN body => body.capacity >= 1

\* UPDATE resources SET ${name ? 'name = ?,' : ''} ${capacity ? 'capacity = ?'
\* : ''} WHERE id = ?: with a name and no capacity the statement ends in
\* "name = ?, WHERE" and fails to parse
updateParses(body) == "name" \in DOMAIN body => "capacity" \in DOMAIN body

\* the resources table after the handler
updatedResources(id, body) ==
  IF /\ validBody(body)
     /\ id \in DOMAIN resources
     /\ DOMAIN body # {}
     /\ updateParses(body)
  THEN [resources EXCEPT ![id].capacity = body.capacity]
  ELSE resources

\* the status of the response
updateStatus(id, body) ==
  IF ~validBody(body) THEN 400
  ELSE IF id \notin DOMAIN resources THEN 404
  ELSE IF DOMAIN body # {} /\ ~updateParses(body) THEN 500
  ELSE 200

\* an update that also removes the bookings of the resource's slots
updateResourceMutant(id, body) ==
  /\ txn = [p \in Procs |-> Idle]
  /\ resources' = updatedResources(id, body)
  /\ bookings' = IF resources' # resources
                   THEN {b \in bookings : slots[b.slotId].resourceId # id}
                   ELSE bookings
  /\ lastResult' = IF resources' # resources
                     THEN [op |-> "updateResource",
                           result |-> [status |-> "updated"]]
                     ELSE lastResult
  /\ UNCHANGED <<ruleStores, sseLog, env, now, users, slots,
                 blackoutDates, nextId, txn>>

\* the handler: the transaction commits the UPDATE or nothing
updateResource(id, body) ==
  /\ txn = [p \in Procs |-> Idle]
  /\ resources' = updatedResources(id, body)
  /\ lastResult' = IF resources' # resources
                     THEN [op |-> "updateResource",
                           result |-> [status |-> "updated"]]
                     ELSE lastResult
  /\ UNCHANGED <<ruleStores, sseLog, env, now, users, slots, bookings,
                 blackoutDates, nextId, txn>>

\* request bodies: a capacity of 0, 1 or 2 with or without a name, a name
\* alone, and an empty body
ResourceBodies ==
  {[capacity |-> c] : c \in 0..2}
  \cup {[name |-> "Bench", capacity |-> c] : c \in 1..2}
  \cup {[name |-> "Bench"], [name |-> "", capacity |-> 2]}
  \cup {<<>>}

NoResource == "r0"

UpdateResource == \E id \in ResourceIds \cup {NoResource},
                     body \in ResourceBodies : updateResource(id, body)

NextAdmin == Book \/ Cancel \/ UpdateResource \/ Tick

SpecAdmin == Init /\ [][NextAdmin]_vars

(* C33: an admin update of a resource's capacity changes no booking: no     *)
(* booking's status or waitlistPosition is altered by the update, so it     *)
(* neither promotes a waitlisted booking nor demotes or cancels a confirmed *)
(* one.                                                                     *)
C33_CapacityUpdateKeepsBookings ==
  [][resources' # resources => bookings' = bookings]_vars

\* the capacity of a resource was updated while one of its slots held a
\* confirmed and a waitlisted booking, and both are as they were
C33_Witness ==
  /\ lastResult.op = "updateResource"
  /\ \E s \in DOMAIN slots :
       /\ Capacity(s) = 2
       /\ ConfirmedOn(s) # {}
       /\ WaitlistedOn(s) # {}


(* C34: book evaluates its checks in the order NOT_FOUND, SLOT_BLOCKED,     *)
(* PAST_SLOT, ALREADY_BOOKED, OVERLAP_CONFLICT, then capacity: when a       *)
(* request violates several conditions at once the error returned is the    *)
(* first in that order (a past slot the user already holds, or a past slot  *)
(* overlapping one of the user's confirmed bookings, yields PAST_SLOT).     *)
C34_CheckOrder ==
  \A u \in Bookers, s \in SlotIds \cup {NoSlot} :
    bookOutcome(u, s) =
      IF s \notin DOMAIN slots \/ slots[s].resourceId \notin DOMAIN resources
        THEN "NOT_FOUND"
      ELSE IF isBlocked(s) THEN "SLOT_BLOCKED"
      ELSE IF isPast(s, now) THEN "PAST_SLOT"
      ELSE IF existing(bookings, u, s) # {} THEN "ALREADY_BOOKED"
      ELSE IF hasOverlap(bookings, u, s) # {} THEN "OVERLAP_CONFLICT"
      ELSE IF hasCapacity(bookedCount(bookings, s), Capacity(s))
        THEN "confirmed"
      ELSE "waitlisted"


(* C35: cancelling a waitlisted booking never triggers a promotion: the set *)
(* of confirmed bookings of the slot is the same before and after, and the  *)
(* result carries no promoted user.                                         *)
C35_WaitlistedCancelPromotesNobody ==
  \A id \in Ids(bookings), actor \in UserIds :
    \A r \in Cancelled(id, actor) :
      LET b == CHOOSE x \in bookings : x.id = id
      IN  b.status = "waitlisted"
          => /\ "promoted" \notin DOMAIN r.result
             /\ SlotBookings(r.rows, b.slotId, "confirmed") = ConfirmedOn(b.slotId)
             /\ r.rows = bookings \ {b}

\* the first of two waitlisted bookings of a full slot was cancelled: the
\* slot keeps its confirmed booking and the booking that was second in line
C35_Witness ==
  /\ lastResult = [op |-> "cancel", result |-> [status |-> "canceled"]]
  /\ \E s \in DOMAIN slots :
       /\ Cardinality(ConfirmedOn(s)) = Capacity(s)
       /\ Cardinality(WaitlistedOn(s)) = 1
       /\ PositionsOn(s) = {2}


(* C36: no queue jumping: over any sequence of book, cancel and admin       *)
(* capacity updates, book returns confirmed for a slot only when that slot  *)
(* has no waitlisted booking; equivalently, a slot with at least one        *)
(* waitlisted booking never has a free unit (confirmed count below          *)
(* capacity).                                                               *)
C36_NoQueueJumping ==
  \A s \in DOMAIN slots :
    /\ WaitlistedOn(s) # {} => Cardinality(ConfirmedOn(s)) >= Capacity(s)
    /\ \A u \in Bookers :
         bookOutcome(u, s) = "confirmed" => WaitlistedOn(s) = {}

(* C37: when admin capacity updates are interleaved with book and cancel,   *)
(* the number of confirmed bookings of every slot is at most the            *)
(* resource's current capacity in every reachable state.                    *)
C37_CapacityUnderUpdates ==
  \A s \in DOMAIN slots : Cardinality(ConfirmedOn(s)) <= Capacity(s)


(* C38: the blocked flag is derived state: after any sequence of            *)
(* addRecurringRule, addBlackoutDate and materializeWeek, every             *)
(* current-week slot's blocked flag and blockedLabel equal what a fresh     *)
(* materializeWeek computes from the current rules and blackouts, i.e. the  *)
(* direct slot update done by addBlackoutDate and the full recomputation    *)
(* agree.                                                                   *)
C38_BlockedIsDerived ==
  \A c \in WeekCalls :
    c[1] \in DOMAIN resources
    => LET fresh == AfterCall(slots, c, now)
       IN  \A s \in DOMAIN slots :
             /\ fresh[s].blocked = slots[s].blocked
             /\ fresh[s].blockedLabel = slots[s].blockedLabel


\* the dates given to materializeWeek: every weekday of week 0, at midnight
\* and at the two call times of the day
WeekDates ==
  {addDays(t, n) : t \in {0} \cup ClockTimes, n \in 0..6}

\* the Monday at 00:00 on or before the date (time 0 is a Monday at 00:00)
MondayMidnight(date) == date - (date % WeekLen)

(* C39: materializeWeek computes weekStart as the Monday at 00:00 on or     *)
(* before the given date, for every weekday and time of day of the input    *)
(* (Sunday maps to the preceding Monday), so the start and end of every     *)
(* generated slot depend only on the week, the day and the slot index, not  *)
(* on the time of day of the input or of the call, and start < end.         *)
C39_WeekStartIsMondayMidnight ==
  \A date \in WeekDates :
    /\ startOfWeek(date) = MondayMidnight(date)
    /\ weekSlotTimes(startOfWeek(date)) = weekSlotTimes(MondayMidnight(date))
    /\ \A i \in DOMAIN weekSlotTimes(startOfWeek(date)) :
         weekSlotTimes(startOfWeek(date))[i].start
           < weekSlotTimes(startOfWeek(date))[i].end


(* C40: after a user's booking on slot S has been cancelled, a new          *)
(* book(user, S) by the same user is not rejected with ALREADY_BOOKED and,  *)
(* when no other check fails, creates a fresh booking (confirmed or at the  *)
(* tail of the waitlist): cancelled bookings do not count toward the        *)
(* one-booking-per-user-per-slot rule.                                      *)
C40_RebookAfterCancel ==
  [][\A b \in bookings :
       b.id \notin Ids(bookings')
       => /\ bookOutcome(b.userId, b.slotId)' # "ALREADY_BOOKED"
          /\ bookResult(b.userId, b.slotId)' # [code |-> "SQLITE_CONSTRAINT"]
          /\ "status" \in DOMAIN bookResult(b.userId, b.slotId)'
             => \E n \in bookRows(b.userId, b.slotId)' :
                  /\ bookRows(b.userId, b.slotId)' = bookings' \cup {n}
                  /\ n.id \notin Ids(bookings) \cup Ids(bookings')
                  /\ n.userId = b.userId /\ n.slotId = b.slotId
                  /\ n.status = bookResult(b.userId, b.slotId)'.status
                  /\ n.status = "waitlisted"
                     => \A w \in bookings' :
                          (w.slotId = b.slotId /\ w.status = "waitlisted")
                          => w.waitlistPosition < n.waitlistPosition
    ]_vars

\* the one booking ever made was cancelled and the table is empty: every
\* user, the one who cancelled included, is confirmed again on every slot
C40_Witness ==
  /\ lastResult.op = "cancel"
  /\ bookings = {}
  /\ nextId = 2
  /\ \A u \in Bookers, s \in SlotIds :
       /\ bookResult(u, s) = [status |-> "confirmed"]
       /\ bookRows(u, s) = {NewBooking(nextId, u, s, "confirmed", NULL)}

====
